---------------------------- MODULE Spec2Model ----------------------------
(***************************************************************************)
(* Model of src/main.py: NSEStockAnalyzer (position calculator, row        *)
(* assembler, batch driver, report emitter) and main.                      *)
(*                                                                         *)
(* Number representation.                                                  *)
(*   - A quote value (a Python float handed over by the provider) is an    *)
(*     integer count of 1/256 rupee.  Every such value is an exact binary  *)
(*     float, so round(x, 2) on it is the correctly rounded result with    *)
(*     exact ties going to the even cent (CPython's float round).          *)
(*   - A StockRecord price field is an integer count of paise (1/100).     *)
(*   - A position percentage is an integer count of tenths of a percent:   *)
(*     50.0 is 500, 100 is 1000.                                           *)
(*   - calculate_position works on the paise values as binary floats that  *)
(*     are no longer exact.  Where the real quotient lies exactly halfway  *)
(*     between two tenths, the float quotient may fall on either side, so  *)
(*     the direction of such a tie is an input ("up") of the model chosen  *)
(*     freely; every other rounding is determined.                         *)
(*   - Numbers are finite; NaN and infinities are not modelled.            *)
(*                                                                         *)
(* Faults.                                                                 *)
(*   - get_stock_data catches every fault of the provider call and         *)
(*     returns None (lines 64-66).                                         *)
(*   - A fault of get_stock_info is raised while the record is built from  *)
(*     the fetched value (lines 94-160), after the fetch has returned.     *)
(*   - Writes to the console are taken not to fail, in get_stock_info as   *)
(*     in the except branch of analyze_stocks.                             *)
(*   - create_excel_report and create_visualizations call the spreadsheet  *)
(*     and chart libraries inside a try; either call may raise.            *)
(*   - main may meet a fault of its own while it sets up the analyzer or   *)
(*     prints the summary table; selecting the summary columns of a batch  *)
(*     without records raises a KeyError.                                  *)
(***************************************************************************)
EXTENDS Integers, Sequences, FiniteSets, TLC

VARIABLES
    stock_dict,   \* the symbol -> company mapping, as its key order
    pc,           \* control position inside analyze_stocks
    i,            \* number of items the for-loop has taken from stock_dict
    stock_data,   \* the value get_stock_data returned to get_stock_info
    results,      \* analyze_stocks' results list
    trace,        \* history of the external steps taken (fetch, append, sleep)
    call,         \* a direct call of calculate_position and its return value
    result_file,  \* main's result_file: what create_excel_report returned
    chart_files,  \* main's chart_files: what create_visualizations returned
    documents     \* the files written so far

main_vars == <<result_file, chart_files, documents>>

vars == <<stock_dict, pc, i, stock_data, results, trace, call, main_vars>>

batch_vars == <<stock_dict, pc, i, stock_data, results, trace>>

-----------------------------------------------------------------------------
(* Bounds of the model.                                                     *)

\* longest symbol mapping handed to analyze_stocks
MaxSymbols == 2

\* direct calls of calculate_position take arguments in -MaxVal..MaxVal
\* (and a few larger values, see CalcVals)
MaxVal == 2

-----------------------------------------------------------------------------
(* Numbers.                                                                 *)

RawPerRupee == 2 ^ 8

\* 50.0, in tenths of a percent
FIFTY == 500

\* a rational n/d with the sign carried by the numerator
Frac(n, d) == IF d < 0 THEN <<-n, -d>> ELSE <<n, d>>

Less(a, b) == a[1] * b[2] < b[1] * a[2]

\* Python's min(a, b): the first argument unless the second is smaller
min(a, b) == IF Less(b, a) THEN b ELSE a

\* Python's max(a, b): the first argument unless the second is larger
max(a, b) == IF Less(a, b) THEN b ELSE a

\* nearest integer to n/d (d > 0); an exact tie goes up iff `up`
round_tie(n, d, up) ==
    LET f == n \div d
        r == n % d
    IN  IF 2 * r < d THEN f
        ELSE IF 2 * r > d THEN f + 1
        ELSE IF up THEN f + 1 ELSE f

\* nearest integer to n/d (d > 0); an exact tie goes to the even neighbour
round_even(n, d) == round_tie(n, d, (n \div d) % 2 = 1)

\* round(x, 1) of a percentage x = q[1]/q[2], in tenths of a percent
round1(q, up) == round_tie(10 * q[1], q[2], up)

\* round(x, 2) of a quote value x = n/d (in 1/256 rupee), in paise
round2(n, d) == round_even(100 * n, RawPerRupee * d)

-----------------------------------------------------------------------------
(* calculate_position, src/main.py:68-80.                                   *)

\* variant: the guard tests only high = low
calculate_position_no_zero_guard(current, low, high, up) ==
    IF high = low
    THEN FIFTY
    ELSE round1(max(Frac(0, 1), min(Frac(100, 1),
                    Frac(100 * (current - low), high - low))), up)

\* variant: the quotient is rounded without max(0, min(100, ...))
calculate_position_no_clamp(current, low, high, up) ==
    IF high = low \/ high = 0
    THEN FIFTY
    ELSE round1(Frac(100 * (current - low), high - low), up)

\* variant: the clamped quotient is cut to one decimal instead of rounded
calculate_position_truncating(current, low, high, up) ==
    IF high = low \/ high = 0
    THEN FIFTY
    ELSE LET q == max(Frac(0, 1), min(Frac(100, 1),
                      Frac(100 * (current - low), high - low)))
         IN  (10 * q[1]) \div q[2]

\* variant: the distance from low is divided by high, not by the range
calculate_position_over_high(current, low, high, up) ==
    IF high = low \/ high = 0
    THEN FIFTY
    ELSE round1(max(Frac(0, 1), min(Frac(100, 1),
                    Frac(100 * (current - low), high))), up)

calculate_position(current, low, high, up) ==
    IF high = low \/ high = 0
    THEN FIFTY
    ELSE LET position == Frac(100 * (current - low), high - low)
         IN  round1(max(Frac(0, 1), min(Frac(100, 1), position)), up)

-----------------------------------------------------------------------------
(* Values exchanged between the stages.                                     *)

\* Python's None
None == [type |-> "NoneType"]

\* dict.get(key, default)
Get(d, key, default) == IF key \in DOMAIN d THEN d[key] ELSE default

\* the embedded ticker -> company mapping of main, src/main.py:503-508
Companies ==
    ("IDEA" :> "Vodafone Idea Limited") @@
    ("ADANIPORTS" :> "Adani Ports and SEZ") @@
    ("RELIANCE" :> "Reliance Industries") @@
    ("BAJAJ-AUTO" :> "Bajaj Auto Limited")

\* the mappings analyze_stocks is run on: up to MaxSymbols distinct symbols
\* of Companies, in any insertion order
StockDicts ==
    { s \in UNION { [1..n -> DOMAIN Companies] : n \in 0..MaxSymbols } :
        \A a, b \in DOMAIN s : a # b => s[a] # s[b] }

\* the dict get_stock_data builds, src/main.py:49-59; values in 1/256 rupee
Data(current_price, w52, m3, m1) ==
    ("current_price" :> current_price) @@
    ("52w_high" :> w52[1]) @@ ("52w_low" :> w52[2]) @@
    ("3m_high" :> m3[1]) @@ ("3m_low" :> m3[2]) @@
    ("1m_high" :> m1[1]) @@ ("1m_low" :> m1[2]) @@
    ("source" :> "Yahoo Finance (yfinance)") @@
    ("hist_data" :> "hist_1y")

Rupees(n) == n * RawPerRupee

\* Provider answers the model draws from: <<current, <<52w high, low>>,
\* <<3m high, low>>, <<1m high, low>>>>.  The provider's numbers are not
\* checked by the code, so the samples cover a price inside, above and below
\* a window, an inverted window, a flat window, a zero price, a price below
\* half a paisa, a window in which the position is an exact tie, and a
\* price below zero.
ProviderAnswers ==
    { <<Rupees(100), <<Rupees(150), Rupees(50)>>, <<Rupees(110), Rupees(90)>>,
            <<Rupees(100), Rupees(95)>>>>,
      <<Rupees(100), <<Rupees(90), Rupees(50)>>, <<Rupees(50), Rupees(150)>>,
            <<Rupees(150), Rupees(150)>>>>,
      <<Rupees(100), <<Rupees(150), Rupees(120)>>, <<Rupees(130), Rupees(70)>>,
            <<Rupees(0), Rupees(0)>>>>,
      <<0, <<Rupees(150), Rupees(50)>>, <<Rupees(110), Rupees(90)>>,
            <<Rupees(100), Rupees(95)>>>>,
      <<1, <<2, 1>>, <<1, 1>>, <<1, 0>>>>,
      <<3, <<41, 0>>, <<41, 1>>, <<3, 3>>>>,
      <<Rupees(-1), <<Rupees(150), Rupees(50)>>, <<Rupees(110), Rupees(90)>>,
            <<Rupees(100), Rupees(95)>>>> }

Quotes == { Data(a[1], a[2], a[3], a[4]) : a \in ProviderAnswers }

-----------------------------------------------------------------------------
(* get_stock_info after the fetch, src/main.py:94-160: the record built     *)
(* from what get_stock_data returned.  ups[k] is the tie direction of the   *)
(* k-th calculate_position call.                                            *)

\* variant: only a missing quote takes the fallback
use_fallback_only_none(data) == data = None

\* the test of src/main.py:95, on the value as fetched (before any rounding)
use_fallback(data) == data = None \/ Get(data, "current_price", 0) = 0

\* variant: the mean is cut to one decimal instead of rounded
average_truncating(a, b, c) == (a + b + c) \div 3

\* round((a + b + c) / 3, 1), src/main.py:145-149; thirds of a tenth never
\* lie halfway between two tenths, so no tie direction is involved
average(a, b, c) == round_tie(a + b + c, 3, FALSE)

get_stock_info(symbol, company_name, data, ups) ==
    LET fallback == use_fallback(data)
        current_price == IF fallback THEN 0 ELSE Get(data, "current_price", 0)
        field(key, n, d) ==
            IF key \in DOMAIN data
            THEN round2(data[key], 1)
            ELSE round2(n * current_price, d)
        Current_Price == IF fallback THEN 0 ELSE round2(current_price, 1)
        High52 == IF fallback THEN 0 ELSE field("52w_high", 12, 10)
        Low52  == IF fallback THEN 0 ELSE field("52w_low", 8, 10)
        High3  == IF fallback THEN 0 ELSE field("3m_high", 11, 10)
        Low3   == IF fallback THEN 0 ELSE field("3m_low", 9, 10)
        High1  == IF fallback THEN 0 ELSE field("1m_high", 105, 100)
        Low1   == IF fallback THEN 0 ELSE field("1m_low", 95, 100)
        Price_vs_52W == calculate_position(Current_Price, Low52, High52, ups[1])
        Price_vs_3M  == calculate_position(Current_Price, Low3, High3, ups[2])
        Price_vs_1M  == calculate_position(Current_Price, Low1, High1, ups[3])
    IN  ("Symbol" :> symbol) @@
        ("Company" :> company_name) @@
        ("Current_Price" :> Current_Price) @@
        ("52_Week_High" :> High52) @@ ("52_Week_Low" :> Low52) @@
        ("3_Month_High" :> High3) @@ ("3_Month_Low" :> Low3) @@
        ("1_Month_High" :> High1) @@ ("1_Month_Low" :> Low1) @@
        ("Data_Source" :>
            IF fallback THEN "Unavailable" ELSE Get(data, "source", "Unknown")) @@
        ("hist_data" :>
            IF fallback THEN "None" ELSE Get(data, "hist_data", "None")) @@
        ("Price_vs_52W" :> Price_vs_52W) @@
        ("Price_vs_3M" :> Price_vs_3M) @@
        ("Price_vs_1M" :> Price_vs_1M) @@
        ("Current_vs_All" :> average(Price_vs_52W, Price_vs_3M, Price_vs_1M))

\* the placeholder of analyze_stocks' except branch, src/main.py:176-192
Placeholder(symbol, company_name) ==
    ("Symbol" :> symbol) @@
    ("Company" :> company_name) @@
    ("Current_Price" :> 0) @@
    ("52_Week_High" :> 0) @@ ("52_Week_Low" :> 0) @@
    ("3_Month_High" :> 0) @@ ("3_Month_Low" :> 0) @@
    ("1_Month_High" :> 0) @@ ("1_Month_Low" :> 0) @@
    ("Price_vs_52W" :> 0) @@
    ("Price_vs_3M" :> 0) @@
    ("Price_vs_1M" :> 0) @@
    ("Current_vs_All" :> 0) @@
    ("Data_Source" :> "Error") @@
    ("hist_data" :> "None")

-----------------------------------------------------------------------------
(* analyze_stocks, src/main.py:162-196.                                     *)

symbol == stock_dict[i]

company_name == Companies[symbol]

\* the for statement asking stock_dict.items() for the next item, after n
\* items: the loop body starts with the call of get_stock_info, whose first
\* statement that matters is the call of get_stock_data; when the items are
\* used up analyze_stocks returns
ForNext(n) ==
    IF n < Len(stock_dict)
    THEN i' = n + 1 /\ pc' = "get_stock_data"
    ELSE i' = n /\ pc' = "done"

analyze_stocks ==
    /\ pc = "start"
    /\ results' = <<>>
    /\ ForNext(0)
    /\ UNCHANGED <<stock_dict, stock_data, trace, call, main_vars>>

\* variant: an empty answer is followed by another request
get_stock_data_retry ==
    /\ pc = "get_stock_data"
    /\ \/ /\ stock_data' = None
          /\ trace' = Append(trace, [op |-> "fetch", symbol |-> symbol,
                                     result |-> "empty", returned |-> None])
          /\ pc' = "get_stock_data"
       \/ \E q \in Quotes :
          /\ stock_data' = q
          /\ trace' = Append(trace, [op |-> "fetch", symbol |-> symbol,
                                     result |-> "data", returned |-> q])
          /\ pc' = "assemble"
    /\ Len(trace) < 3 * MaxSymbols + 2
    /\ UNCHANGED <<stock_dict, i, results, call, main_vars>>

\* get_stock_data, src/main.py:21-66: one request to the provider
get_stock_data ==
    /\ pc = "get_stock_data"
    /\ \/ \* hist_1y.empty
          /\ stock_data' = None
          /\ trace' = Append(trace, [op |-> "fetch", symbol |-> symbol,
                                     result |-> "empty", returned |-> None])
       \/ \* the provider call raised
          /\ stock_data' = None
          /\ trace' = Append(trace, [op |-> "fetch", symbol |-> symbol,
                                     result |-> "raised", returned |-> None])
       \/ \E q \in Quotes :
          /\ stock_data' = q
          /\ trace' = Append(trace, [op |-> "fetch", symbol |-> symbol,
                                     result |-> "data", returned |-> q])
    /\ pc' = "assemble"
    /\ UNCHANGED <<stock_dict, i, results, call, main_vars>>

\* get_stock_info returns and its record is appended, src/main.py:171-172
analyze_stocks_try ==
    /\ pc = "assemble"
    /\ \E ups \in [1..3 -> BOOLEAN] :
          results' = Append(results,
                            get_stock_info(symbol, company_name, stock_data, ups))
    /\ trace' = Append(trace, [op |-> "append", symbol |-> symbol,
                               via |-> "return"])
    /\ pc' = "sleep"
    /\ UNCHANGED <<stock_dict, i, stock_data, call, main_vars>>

\* variant: the except branch appends nothing
analyze_stocks_except_no_append ==
    /\ pc = "assemble"
    /\ trace' = Append(trace, [op |-> "append", symbol |-> symbol,
                               via |-> "except"])
    /\ pc' = "sleep"
    /\ UNCHANGED <<stock_dict, i, stock_data, results, call, main_vars>>

\* variant: the except branch appends the placeholder and leaves the loop
analyze_stocks_except_aborts ==
    /\ pc = "assemble"
    /\ results' = Append(results, Placeholder(symbol, company_name))
    /\ trace' = Append(trace, [op |-> "append", symbol |-> symbol,
                               via |-> "except"])
    /\ pc' = "done"
    /\ UNCHANGED <<stock_dict, i, stock_data, call, main_vars>>

\* variant: the except branch appends the placeholder and goes straight to
\* the next item of the loop
analyze_stocks_except_continue ==
    /\ pc = "assemble"
    /\ results' = Append(results, Placeholder(symbol, company_name))
    /\ trace' = Append(trace, [op |-> "append", symbol |-> symbol,
                               via |-> "except"])
    /\ ForNext(i)
    /\ UNCHANGED <<stock_dict, stock_data, call, main_vars>>

\* a fault while the record is assembled reaches the except branch, which
\* appends the placeholder, src/main.py:173-192
analyze_stocks_except ==
    /\ pc = "assemble"
    /\ results' = Append(results, Placeholder(symbol, company_name))
    /\ trace' = Append(trace, [op |-> "append", symbol |-> symbol,
                               via |-> "except"])
    /\ pc' = "sleep"
    /\ UNCHANGED <<stock_dict, i, stock_data, call, main_vars>>

\* time.sleep(2), then the loop goes on, src/main.py:194
time_sleep ==
    /\ pc = "sleep"
    /\ trace' = Append(trace, [op |-> "sleep", symbol |-> symbol])
    /\ ForNext(i)
    /\ UNCHANGED <<stock_dict, stock_data, results, call, main_vars>>

NoCall == [st |-> "none"]

-----------------------------------------------------------------------------
(* A direct call of calculate_position(current, low, high).                 *)

CalcVals == (-MaxVal .. MaxVal) \cup {16, 50, 100, 150}

calculate_position_call ==
    /\ pc = "call"
    /\ call.st = "called"
    /\ \E up \in BOOLEAN :
          call' = [st |-> "returned", current |-> call.current,
                   low |-> call.low, high |-> call.high,
                   ret |-> calculate_position(call.current, call.low,
                                              call.high, up)]
    /\ UNCHANGED <<batch_vars, main_vars>>

-----------------------------------------------------------------------------
(* The program is entered either through analyze_stocks, on some mapping,   *)
(* or through calculate_position, on some numbers.                          *)

InitBatch ==
    /\ stock_dict \in StockDicts
    /\ pc = "start"
    /\ i = 0
    /\ stock_data = None
    /\ results = <<>>
    /\ trace = <<>>
    /\ call = NoCall
    /\ result_file = None
    /\ chart_files = <<>>
    /\ documents = {}

InitCall ==
    /\ stock_dict = <<>>
    /\ pc = "call"
    /\ i = 0
    /\ stock_data = None
    /\ results = <<>>
    /\ trace = <<>>
    /\ call \in { [st |-> "called", current |-> c, low |-> l, high |-> h] :
                    c \in CalcVals, l \in CalcVals, h \in CalcVals }
    /\ result_file = None
    /\ chart_files = <<>>
    /\ documents = {}

Init == InitBatch \/ InitCall

Next ==
    \/ analyze_stocks
    \/ get_stock_data
    \/ analyze_stocks_try
    \/ analyze_stocks_except
    \/ time_sleep
    \/ calculate_position_call

Spec == Init /\ [][Next]_vars

-----------------------------------------------------------------------------
(* main, src/main.py:494-570, and the report emitter it drives.             *)

\* the insertion order of main's embedded mapping, src/main.py:503-508
MainOrder == <<"IDEA", "ADANIPORTS", "RELIANCE", "BAJAJ-AUTO">>

\* the mappings main is run on: the embedded mapping cut to its first n
\* symbols (n = 0 stands for a run on an empty symbol list)
MainDicts ==
    { SubSeq(MainOrder, 1, n) : n \in { m \in 0..MaxSymbols : m <= Len(MainOrder) } }

\* the names of the two output files, src/main.py:547 and 217
excel_filename == [name |-> "Stock_Analysis_Report_<timestamp>.xlsx"]

pdf_filename == [name |-> "Stock_Analysis_<timestamp>_Charts_<now>.pdf"]

\* main up to the call of analyze_stocks, src/main.py:496-521: the banner,
\* the mapping, the analyzer; a fault here reaches main's except branch
main ==
    /\ pc = "main"
    /\ \/ /\ pc' = "start"
          /\ UNCHANGED trace
       \/ /\ pc' = "fatal"
          /\ trace' = Append(trace, [op |-> "fault", in |-> "main"])
    /\ UNCHANGED <<stock_dict, i, stock_data, results, call, main_vars>>

\* the summary table, src/main.py:523-539: df[[...]] raises a KeyError on a
\* frame without columns, which is what a batch without records gives
main_summary_table ==
    /\ pc = "done"
    /\ \/ /\ results # <<>>
          /\ pc' = "create_excel_report"
          /\ UNCHANGED trace
       \/ /\ pc' = "fatal"
          /\ trace' = Append(trace, [op |-> "fault", in |-> "main"])
    /\ UNCHANGED <<stock_dict, i, stock_data, results, call, main_vars>>

\* variant: a fault of the export leaves create_excel_report
create_excel_report_raises ==
    /\ pc = "create_excel_report"
    /\ \/ /\ result_file' = excel_filename
          /\ documents' = documents \cup {excel_filename}
          /\ trace' = Append(trace, [op |-> "excel", outcome |-> "saved"])
          /\ pc' = "create_visualizations"
       \/ /\ UNCHANGED <<result_file, documents>>
          /\ trace' = Append(trace, [op |-> "excel", outcome |-> "fault"])
          /\ pc' = "fatal"
    /\ UNCHANGED <<stock_dict, i, stock_data, results, call, chart_files>>

\* create_excel_report, src/main.py:417-492, and the assignment of its
\* result to result_file, src/main.py:548
create_excel_report ==
    /\ pc = "create_excel_report"
    /\ \/ \* writer.close() wrote the file; return filename
          /\ result_file' = excel_filename
          /\ documents' = documents \cup {excel_filename}
          /\ trace' = Append(trace, [op |-> "excel", outcome |-> "saved"])
       \/ \* a fault inside the try; return None
          /\ result_file' = None
          /\ UNCHANGED documents
          /\ trace' = Append(trace, [op |-> "excel", outcome |-> "fault"])
    /\ pc' = "create_visualizations"
    /\ UNCHANGED <<stock_dict, i, stock_data, results, call, chart_files>>

\* variant: the filter keeps the records whose price is not 0
df_valid_nonzero == SelectSeq(results, LAMBDA r : r["Current_Price"] # 0)

\* df[df['Current_Price'] > 0], src/main.py:210
df_valid == SelectSeq(results, LAMBDA r : r["Current_Price"] > 0)

\* create_visualizations, src/main.py:198-415, and the assignment of its
\* result to chart_files, src/main.py:551
create_visualizations ==
    /\ pc = "create_visualizations"
    /\ \/ \* df_valid.empty: return the empty created_files
          /\ df_valid = <<>>
          /\ chart_files' = <<>>
          /\ UNCHANGED documents
          /\ trace' = Append(trace, [op |-> "charts", outcome |-> "skipped"])
       \/ \* the six charts are saved and the file name is appended
          /\ df_valid # <<>>
          /\ chart_files' = <<pdf_filename>>
          /\ documents' = documents \cup {pdf_filename}
          /\ trace' = Append(trace, [op |-> "charts", outcome |-> "saved"])
       \/ \* a fault inside the try, with or without a file left behind by
          \* PdfPages; created_files stays empty
          /\ df_valid # <<>>
          /\ chart_files' = <<>>
          /\ \E left \in BOOLEAN :
                documents' = IF left THEN documents \cup {pdf_filename}
                                     ELSE documents
          /\ trace' = Append(trace, [op |-> "charts", outcome |-> "fault"])
    /\ pc' = "summary"
    /\ UNCHANGED <<stock_dict, i, stock_data, results, call, result_file>>

\* the final summary, src/main.py:553-566; main returns
main_final_summary ==
    /\ pc = "summary"
    /\ pc' = "exit"
    /\ UNCHANGED <<stock_dict, i, stock_data, results, trace, call, main_vars>>

\* variant: the except branch reports the fault and raises it again
main_except_reraises ==
    /\ pc = "fatal"
    /\ pc' = "escaped"
    /\ trace' = Append(trace, [op |-> "caught"])
    /\ UNCHANGED <<stock_dict, i, stock_data, results, call, main_vars>>

\* main's except branch, src/main.py:568-570: the fault is reported and
\* main returns
main_except ==
    /\ pc = "fatal"
    /\ pc' = "exit"
    /\ trace' = Append(trace, [op |-> "caught"])
    /\ UNCHANGED <<stock_dict, i, stock_data, results, call, main_vars>>

InitMain ==
    /\ stock_dict \in MainDicts
    /\ pc = "main"
    /\ i = 0
    /\ stock_data = None
    /\ results = <<>>
    /\ trace = <<>>
    /\ call = NoCall
    /\ result_file = None
    /\ chart_files = <<>>
    /\ documents = {}

NextMain ==
    \/ main
    \/ analyze_stocks
    \/ get_stock_data
    \/ analyze_stocks_try
    \/ analyze_stocks_except
    \/ time_sleep
    \/ main_summary_table
    \/ create_excel_report
    \/ create_visualizations
    \/ main_final_summary
    \/ main_except

SpecMain == InitMain /\ [][NextMain]_vars

\* The program is one thread of control: a step that can be taken is taken.
\* This takes each provider request and each library call to return or
\* raise, and the two-second sleep to end.
FairMain == SpecMain /\ WF_vars(NextMain)

-----------------------------------------------------------------------------
(* Vocabulary of the properties.                                            *)

Positions == {"Price_vs_52W", "Price_vs_3M", "Price_vs_1M"}

Windows ==
    { <<"Price_vs_52W", "52_Week_Low", "52_Week_High">>,
      <<"Price_vs_3M", "3_Month_Low", "3_Month_High">>,
      <<"Price_vs_1M", "1_Month_Low", "1_Month_High">> }

Returned == call.st = "returned"

\* trace positions of the fetches made for symbol s
Fetches(s) == { t \in DOMAIN trace : trace[t].op = "fetch" /\ trace[t].symbol = s }

\* get_stock_info returned the record of symbol s (no fault was raised)
ReturnedFor(s) ==
    \E t \in DOMAIN trace :
        trace[t].op = "append" /\ trace[t].symbol = s /\ trace[t].via = "return"

\* the assembly of the record of symbol s raised a fault
FaultedFor(s) ==
    \E t \in DOMAIN trace :
        trace[t].op = "append" /\ trace[t].symbol = s /\ trace[t].via = "except"

Abs(x) == IF x < 0 THEN -x ELSE x

\* ret (tenths of a percent) is ((current - low) / (high - low)) * 100,
\* clamped to [0, 100] and rounded to the nearest tenth
ClampedRounded(current, low, high, ret) ==
    LET n == IF high > low THEN current - low ELSE low - current
        d == Abs(high - low)
    IN  IF n <= 0 THEN ret = 0
        ELSE IF n >= d THEN ret = 1000
        ELSE 2 * Abs(ret * d - 1000 * n) <= d

-----------------------------------------------------------------------------
(* C1: when analyze_stocks finishes, the result holds exactly one record    *)
(* per configured symbol and the k-th record carries the k-th symbol of    *)
(* the mapping, whatever happened to each symbol.                           *)
C1_OneRecordPerSymbolInOrder ==
    pc = "done" =>
        /\ Len(results) = Len(stock_dict)
        /\ \A k \in DOMAIN stock_dict : results[k]["Symbol"] = stock_dict[k]

\* a finished batch of two symbols, one placeholder and one fetched record
C1_Witness ==
    /\ pc = "done"
    /\ Len(stock_dict) = 2
    /\ results[1]["Data_Source"] = "Error"
    /\ results[2]["Data_Source"] = "Yahoo Finance (yfinance)"

(* C2: every position percentage of every record of a batch, and every     *)
(* value calculate_position returns, lies in [0, 100] (0..1000 tenths),    *)
(* also for a price outside the window and for a window with high < low.   *)
C2_PositionsWithinBounds ==
    /\ \A k \in DOMAIN results : \A f \in Positions :
            results[k][f] >= 0 /\ results[k][f] <= 1000
    /\ Returned => call.ret >= 0 /\ call.ret <= 1000

\* a call with an inverted window and the price beyond it
C2_Witness ==
    /\ Returned
    /\ call.high < call.low
    /\ call.high # 0
    /\ call.current < call.high

(* C3, as stated: for all low and high with high # low,                    *)
(* calculate_position(low, low, high) is 0 and                             *)
(* calculate_position(high, low, high) is 100.                             *)
C3_EndpointsAsStated ==
    Returned /\ call.high # call.low =>
        /\ call.current = call.low => call.ret = 0
        /\ call.current = call.high => call.ret = 1000

(* C3, amended: for all low and high with high # low and high # 0,         *)
(* calculate_position(low, low, high) is 0 and                             *)
(* calculate_position(high, low, high) is 100.                             *)
C3_Endpoints ==
    Returned /\ call.high # call.low /\ call.high # 0 =>
        /\ call.current = call.low => call.ret = 0
        /\ call.current = call.high => call.ret = 1000

\* the price at the high end of a proper window
C3_Witness ==
    /\ Returned
    /\ call.high # call.low
    /\ call.high # 0
    /\ call.current = call.high
    /\ call.ret = 1000

(* C4: calculate_position returns exactly 50.0 whenever high = low or      *)
(* high = 0, for every current (and, when high = 0, for every low).        *)
C4_DegenerateRange ==
    Returned /\ (call.high = call.low \/ call.high = 0) => call.ret = FIFTY

\* high = 0 with a different low and a price elsewhere
C4_Witness ==
    /\ Returned
    /\ call.high = 0
    /\ call.low # 0
    /\ call.current # call.low
    /\ call.current # 0

(* C5: when high # low and high # 0, calculate_position is                 *)
(* ((current - low) / (high - low)) * 100 clamped to [0, 100] and rounded  *)
(* to one decimal, in a direct call and in each position of a record that  *)
(* get_stock_info built; a record with price 100, 52-week low 50 and high  *)
(* 150 has Price_vs_52W = 50.0.                                             *)
C5_ClampThenRound ==
    /\ Returned /\ call.high # call.low /\ call.high # 0 =>
            ClampedRounded(call.current, call.low, call.high, call.ret)
    /\ \A k \in DOMAIN results : ReturnedFor(results[k]["Symbol"]) =>
          /\ \A w \in Windows :
                LET r == results[k]
                IN  r[w[3]] # r[w[2]] /\ r[w[3]] # 0 =>
                        ClampedRounded(r["Current_Price"], r[w[2]], r[w[3]],
                                       r[w[1]])
          /\ (/\ results[k]["Current_Price"] = 10000
              /\ results[k]["52_Week_Low"] = 5000
              /\ results[k]["52_Week_High"] = 15000)
                => results[k]["Price_vs_52W"] = 500

\* the fetched example: price 100 between 50 and 150
C5_Witness ==
    \E k \in DOMAIN results :
        /\ ReturnedFor(results[k]["Symbol"])
        /\ results[k]["Current_Price"] = 10000
        /\ results[k]["52_Week_Low"] = 5000
        /\ results[k]["52_Week_High"] = 15000
        /\ results[k]["Price_vs_52W"] = 500

-----------------------------------------------------------------------------
PriceFields ==
    {"Current_Price", "52_Week_High", "52_Week_Low", "3_Month_High",
     "3_Month_Low", "1_Month_High", "1_Month_Low"}

Derived == Positions \cup {"Current_vs_All"}

\* the fetch returned nothing, or a quote whose current_price is 0
NothingUsable(returned) == returned = None \/ returned["current_price"] = 0

(* C6: if the fetch for a symbol returned nothing (no 1-year series, or    *)
(* the fetch raised) or a quote whose current_price is 0, the record       *)
(* get_stock_info returns has Current_Price and the six high/low fields    *)
(* 0, the three positions 50.0, Current_vs_All 50.0 and Data_Source        *)
(* "Unavailable".                                                          *)
C6_UnavailableFallback ==
    \A k \in DOMAIN results :
        LET r == results[k]
        IN  /\ ReturnedFor(r["Symbol"])
            /\ \E t \in Fetches(r["Symbol"]) : NothingUsable(trace[t].returned)
            => /\ \A f \in PriceFields : r[f] = 0
               /\ \A f \in Derived : r[f] = FIFTY
               /\ r["Data_Source"] = "Unavailable"

\* records returned after an empty answer, a raised fetch and a zero price
C6_Witness ==
    /\ Len(results) = 2
    /\ ReturnedFor(results[1]["Symbol"])
    /\ ReturnedFor(results[2]["Symbol"])
    /\ \E t \in Fetches(results[1]["Symbol"]) :
            trace[t].result = "data" /\ trace[t].returned["current_price"] = 0
    /\ \E t \in Fetches(results[2]["Symbol"]) : trace[t].result = "raised"
    /\ results[1]["Data_Source"] = "Unavailable"
    /\ results[2]["Data_Source"] = "Unavailable"

(* C7: if assembling a symbol's record raises a fault, analyze_stocks does *)
(* not abort: the record appended for that symbol has every price,         *)
(* high/low, position and average field 0 and Data_Source "Error", and     *)
(* every remaining symbol of the mapping is processed afterwards.          *)
C7_FaultGivesErrorRecordAndBatchGoesOn ==
    \A t \in DOMAIN trace :
        trace[t].op = "append" /\ trace[t].via = "except" =>
            /\ \E k \in DOMAIN results :
                  /\ stock_dict[k] = trace[t].symbol
                  /\ results[k]["Symbol"] = trace[t].symbol
                  /\ \A f \in PriceFields \cup Derived : results[k][f] = 0
                  /\ results[k]["Data_Source"] = "Error"
            /\ pc = "done" =>
                  \A m \in DOMAIN stock_dict :
                      (\E j \in 1 .. m - 1 : stock_dict[j] = trace[t].symbol) =>
                          /\ \E u \in Fetches(stock_dict[m]) : u > t
                          /\ \E v \in DOMAIN trace :
                                /\ v > t
                                /\ trace[v].op = "append"
                                /\ trace[v].symbol = stock_dict[m]
                          /\ m \in DOMAIN results
                          /\ results[m]["Symbol"] = stock_dict[m]

\* a finished batch whose first symbol faulted and whose second was fetched
C7_Witness ==
    /\ pc = "done"
    /\ Len(stock_dict) = 2
    /\ FaultedFor(stock_dict[1])
    /\ ReturnedFor(stock_dict[2])
    /\ results[1]["Data_Source"] = "Error"
    /\ results[2]["Current_Price"] > 0

(* C8: every record of a batch whose Current_Price is 0 has its three      *)
(* positions and its average either all 50.0 or all 0, also when the       *)
(* record comes from a fetched quote whose nonzero price rounds to 0.00.   *)
C8_ZeroPriceDerivedUniform ==
    \A k \in DOMAIN results :
        results[k]["Current_Price"] = 0 =>
            \/ \A f \in Derived : results[k][f] = FIFTY
            \/ \A f \in Derived : results[k][f] = 0

(* C9: in every record get_stock_info returns, Current_vs_All is the mean  *)
(* of the three positions rounded to one decimal; it lies between the      *)
(* smallest and the largest of them and inside [0, 100].                   *)
C9_AverageOfPositions ==
    \A k \in DOMAIN results :
        LET r == results[k]
            sum == r["Price_vs_52W"] + r["Price_vs_3M"] + r["Price_vs_1M"]
            avg == r["Current_vs_All"]
        IN  ReturnedFor(r["Symbol"]) =>
                /\ 2 * Abs(3 * avg - sum) <= 3
                /\ \E f \in Positions : r[f] <= avg
                /\ \E f \in Positions : avg <= r[f]
                /\ avg >= 0 /\ avg <= 1000

\* a returned record whose mean is not a whole tenth
C9_Witness ==
    \E k \in DOMAIN results :
        /\ ReturnedFor(results[k]["Symbol"])
        /\ (results[k]["Price_vs_52W"] + results[k]["Price_vs_3M"]
                + results[k]["Price_vs_1M"]) % 3 = 2
        /\ results[k]["Price_vs_1M"] = 1000

(* C10: during a batch run the fetcher is invoked exactly once per         *)
(* configured symbol (never again after a failed fetch), and the step      *)
(* that follows a failed fetch appends that symbol's substitute record     *)
(* without another fetch.                                                  *)
C10_FetchedOnceState ==
    /\ \A s \in DOMAIN Companies : Cardinality(Fetches(s)) <= 1
    /\ \A t \in DOMAIN trace : trace[t].op = "fetch" =>
            \E k \in DOMAIN stock_dict : stock_dict[k] = trace[t].symbol
    /\ pc = "done" =>
            \A k \in DOMAIN stock_dict : Cardinality(Fetches(stock_dict[k])) = 1

C10_AfterFailedFetchStep ==
    (trace # <<>> /\ trace[Len(trace)].op = "fetch"
                  /\ trace[Len(trace)].returned = None) =>
        /\ Len(trace') = Len(trace) + 1
        /\ trace'[Len(trace')].op = "append"
        /\ trace'[Len(trace')].symbol = trace[Len(trace)].symbol
        /\ Len(results') = Len(results) + 1
        /\ results'[Len(results')]["Symbol"] = trace[Len(trace)].symbol
        /\ results'[Len(results')]["Current_Price"] = 0
        /\ results'[Len(results')]["Data_Source"] \in {"Unavailable", "Error"}

C10_OneFetchPerSymbolNoRetry ==
    [](C10_FetchedOnceState) /\ [][C10_AfterFailedFetchStep]_vars

\* a finished batch of two symbols in which a fetch failed
C10_Witness ==
    /\ pc = "done"
    /\ Len(stock_dict) = 2
    /\ \E t \in Fetches(stock_dict[1]) : trace[t].result = "empty"
    /\ Cardinality(Fetches(stock_dict[1])) = 1
    /\ Cardinality(Fetches(stock_dict[2])) = 1

-----------------------------------------------------------------------------
\* trace positions of the events of one kind
Events(op) == { t \in DOMAIN trace : trace[t].op = op }

Skipped(t) == trace[t].outcome = "skipped"

(* C11, as stated: create_visualizations skips chart generation (returns   *)
(* an empty file list and writes no document) if and only if no record of  *)
(* the batch has a nonzero Current_Price.                                   *)
C11_SkipsIffNoNonzeroPrice ==
    \A t \in Events("charts") :
        /\ Skipped(t) <=> \A k \in DOMAIN results : results[k]["Current_Price"] = 0
        /\ Skipped(t) => chart_files = <<>> /\ pdf_filename \notin documents

(* C11, amended: create_visualizations skips chart generation (returns an  *)
(* empty file list and writes no document) if and only if no record of     *)
(* the batch has a Current_Price greater than 0; whenever at least one     *)
(* record has a positive price the chart bundle is attempted.              *)
C11_SkipsIffNoPositivePrice ==
    \A t \in Events("charts") :
        /\ Skipped(t) <=> \A k \in DOMAIN results : results[k]["Current_Price"] <= 0
        /\ Skipped(t) => chart_files = <<>> /\ pdf_filename \notin documents

\* a skipped chart stage on a batch of a zero-price and a negative-price record
C11_Witness ==
    /\ \E t \in Events("charts") : Skipped(t)
    /\ Len(results) = 2
    /\ results[1]["Current_Price"] = 0
    /\ results[2]["Current_Price"] < 0
    /\ chart_files = <<>>
    /\ documents \subseteq {excel_filename}

(* C12: a fault inside the tabular export makes create_excel_report return *)
(* None without raising, the batch is unchanged and the chart stage is     *)
(* still invoked afterwards on the same batch; a fault inside chart        *)
(* generation returns an empty file list without raising.                  *)
C12_ExportFaultState ==
    /\ \A t \in Events("excel") :
          /\ trace[t].outcome = "fault" => result_file = None
          /\ Events("fault") = {} /\ Events("caught") = {}
          /\ pc \in {"create_visualizations", "summary", "exit"}
          /\ pc \in {"summary", "exit"} => \E u \in Events("charts") : u > t
    /\ \A t \in Events("charts") :
          /\ trace[t].outcome = "fault" => chart_files = <<>>
          /\ Events("fault") = {} /\ Events("caught") = {}
          /\ pc \in {"summary", "exit"}

C12_ExportStep ==
    /\ pc = "create_excel_report" =>
          /\ pc' = "create_visualizations"
          /\ results' = results
    /\ pc = "create_visualizations" =>
          /\ pc' = "summary"
          /\ results' = results

C12_ExportFaultsAreContained ==
    [](C12_ExportFaultState) /\ [][C12_ExportStep]_vars

\* a finished run in which both exports failed
C12_Witness ==
    /\ pc = "exit"
    /\ \E t \in Events("excel") : trace[t].outcome = "fault"
    /\ \E t \in Events("charts") : trace[t].outcome = "fault"
    /\ result_file = None
    /\ chart_files = <<>>
    /\ Len(results) = 2

(* C13: for every symbol list and every combination of fetch, assembly,    *)
(* export and top-level faults, the run of main eventually ends without a  *)
(* fault escaping: without a top-level fault every symbol has its record   *)
(* and both export stages were run; a top-level fault is caught once.      *)
C13_ExitState ==
    pc = "exit" =>
        /\ Cardinality(Events("caught")) <= 1
        /\ Cardinality(Events("caught")) = Cardinality(Events("fault"))
        /\ Events("caught") = {} =>
              /\ Len(results) = Len(stock_dict)
              /\ Cardinality(Events("excel")) = 1
              /\ Cardinality(Events("charts")) = 1

C13_MainTerminates == <>(pc = "exit") /\ [](C13_ExitState)

\* a run that ended in main's except branch after a complete batch
C13_Witness ==
    /\ pc = "exit"
    /\ Events("caught") # {}
    /\ Len(results) = 2
    /\ \E k \in DOMAIN results : results[k]["Data_Source"] = "Error"

(* C14: in analyze_stocks a delay step lies between the processing of any  *)
(* two successive symbols: every fetch but the first directly follows the  *)
(* sleep of the symbol before it, and every appended record, returned or   *)
(* placeholder, is followed by the sleep of its symbol.                    *)
C14_DelayBetweenSymbols ==
    /\ \A t \in Events("fetch") :
          /\ t = 1 <=> trace[t].symbol = stock_dict[1]
          /\ t > 1 =>
                /\ trace[t - 1].op = "sleep"
                /\ \E k \in DOMAIN stock_dict :
                      /\ k > 1
                      /\ stock_dict[k] = trace[t].symbol
                      /\ stock_dict[k - 1] = trace[t - 1].symbol
    /\ \A t \in Events("append") :
          /\ t = Len(trace) => pc = "sleep"
          /\ t < Len(trace) =>
                /\ trace[t + 1].op = "sleep"
                /\ trace[t + 1].symbol = trace[t].symbol
    /\ pc = "done" => Cardinality(Events("sleep")) = Len(stock_dict)

\* the second symbol is fetched after the sleep that follows a placeholder
C14_Witness ==
    /\ Len(trace) >= 4
    /\ trace[2].op = "append" /\ trace[2].via = "except"
    /\ trace[3].op = "sleep"
    /\ trace[4].op = "fetch"
    /\ trace[4].symbol = stock_dict[2]

=============================================================================
